---- MODULE Spec2Model ----
(***************************************************************************)
(* CGBank demo: the ledger store (CGBankDatabase), the dialogue engine     *)
(* (RexaBot) and the Streamlit session around them, as a state machine.    *)
(*                                                                         *)
(* Two source variants exist: src/cra.py (persists BANK_DATA to            *)
(* dummydata.json) and src/bank.py (no persistence, the pages mutate the   *)
(* ledger inline).  The variable `variant` fixes which one a behaviour     *)
(* runs.                                                                   *)
(*                                                                         *)
(* Amounts are whole currency units.  Time is an integer number of days.   *)
(***************************************************************************)
EXTENDS Integers, Sequences, FiniteSets, TLC

VARIABLES
    variant,        \* "cra" or "bank": which source file runs
    BANK_DATA,      \* the in-memory document of the current script run
    disk,           \* dummydata.json
    session_state,  \* st.session_state: survives script reruns
    now,            \* datetime.now(), in days
    call,           \* the last operation invoked, with its arguments (for a message
                    \* to Rexa also the download_link it found in the session)
    ret,            \* what that operation returned (a ledger method: True or False)
    response,       \* what process_message answered
    pdf_calls,      \* calls of the PDF generator while the last operation ran
    classified,     \* the last call of _identify_intent: its text and its result
    earlier,        \* the first direct call of _identify_intent: its text and its result
    runs,           \* two more browser sessions: where each script run is, and its
                    \* own BANK_DATA and st.session_state
    applied,        \* per account: sum of the amounts of the add_transaction calls that returned True
    nops            \* number of ledger operations so far (bounds the run)

vars == <<variant, BANK_DATA, disk, session_state, now, call, ret, response, pdf_calls,
         classified, earlier, runs, applied, nops>>

(***************************************************************************)
(* Bounds of the model.                                                    *)
(***************************************************************************)
MaxApiCalls == 2    \* ledger method calls in a run of SpecApi
MaxOps == 2         \* ledger operations through the pages in a run of SpecPages
MaxNow == 1         \* days the clock advances
MaxRequests == 2    \* account requests on file in a run of SpecAccounts
MaxMessages == 2    \* exchanges on the assistant's page in a run of SpecChat
MaxExchanges == 11  \* exchanges through the popup in a run of SpecHistory

(***************************************************************************)
(* Python values.                                                          *)
(***************************************************************************)
None == "None"

\* st.session_state.download_link: None, the <a href=...> built for `user` at
\* time `at`, or the text "Error generating download link".
NoLink == [kind |-> "None", user |-> None, at |-> 0]

\* A text is a tuple of string pieces; an f-string concatenates them.
Text(str) == <<str>>

\* str.lower() on the user names the model uses.
Lower(s) ==
    CASE s = "RAVI"  -> "ravi"
      [] s = "Ravi"  -> "ravi"
      [] s = "Meena" -> "meena"
      [] s = "MEENA" -> "meena"
      [] OTHER       -> s

Put(d, k, v) == [x \in (DOMAIN d) \cup {k} |-> IF x = k THEN v ELSE d[x]]

\* A `del d[k]` that is left out.
Keep(d, k) == d

Del(d, k) == [x \in (DOMAIN d) \ {k} |-> d[x]]

(***************************************************************************)
(* The knowledge base document dummydata.json as shipped.                  *)
(***************************************************************************)
UserKeys == {"ravi", "Meena"}

InitialUsers ==
    [k \in UserKeys |->
        IF k = "ravi"
        THEN [name |-> "Ravi Kumar", balance |-> 1000, password |-> "ravi123"]
        ELSE [name |-> "Meena S", balance |-> 50, password |-> "meena123"]]

InitialBills ==
    << [name |-> "Electricity Company", amount |-> 75, due |-> 5, status |-> "Due Soon"],
       [name |-> "Internet Provider", amount |-> 200, due |-> 20, status |-> "Upcoming"] >>

InitialHistory ==
    << [name |-> <<"Salary">>, amt |-> 500],
       [name |-> <<"Grocery">>, amt |-> -120] >>

InitialDocument ==
    [users |-> InitialUsers, bills |-> InitialBills, transactions_history |-> InitialHistory,
     account_requests |-> << >>]

\* What a truncated or half-written dummydata.json holds.
NoDocument ==
    [users |-> << >>, bills |-> << >>, transactions_history |-> << >>,
     account_requests |-> << >>]

(***************************************************************************)
(* Inputs.                                                                 *)
(***************************************************************************)
UsernameInputs == {"RAVI", "meena", "ghost"}
AmountInputs == {-200, 100}
BillerInputs == {"Electricity Company", "Water Department"}
BillAmountInputs == {75}
SaveOutcomes == {"ok", "open_failed", "dump_failed"}

\* random.randint(1, 30) and random.uniform(0, 1000): the draws the model takes.
RandomDraws == {[days |-> 1, off |-> 250], [days |-> 30, off |-> 0]}

(***************************************************************************)
(* A world is what a method can read and write:                            *)
(*   data = BANK_DATA, disk = dummydata.json, ss = st.session_state.       *)
(* A method returns [w |-> the world after it, ret |-> its return value].  *)
(***************************************************************************)
World == [data |-> BANK_DATA, disk |-> disk, ss |-> session_state]

\* CGBankDatabase._save_data: rewrite the whole file.
\*   "ok"           the file now holds BANK_DATA, returns True
\*   "open_failed"  open() raised: the file is untouched, returns False
\*   "dump_failed"  the write raised after open() truncated the file, returns False
_save_data(w, outcome) ==
    CASE outcome = "ok" ->
            [w |-> [w EXCEPT !.disk = [valid |-> TRUE, doc |-> w.data]], ret |-> TRUE]
      [] outcome = "open_failed" ->
            [w |-> w, ret |-> FALSE]
      [] OTHER ->
            [w |-> [w EXCEPT !.disk = [valid |-> FALSE, doc |-> NoDocument]], ret |-> FALSE]

\* CGBankDatabase.get_user: the key of the first account whose lowercased
\* name equals the lowercased argument (the code returns the account dict
\* itself, an alias into BANK_DATA), or None.
get_user(data, username) ==
    LET hits == {k \in DOMAIN data.users : Lower(k) = Lower(username)}
    IN IF hits = {} THEN None ELSE CHOOSE k \in hits : TRUE

\* A sort that leaves the order as it finds it.
InsertLast(sorted, t) == sorted \o <<t>>

\* sorted(transactions, key=date, reverse=True): stable, newest first.
RECURSIVE InsertByDate(_, _)
InsertByDate(sorted, t) ==
    IF sorted = << >> THEN <<t>>
    ELSE IF Head(sorted).date >= t.date
         THEN <<Head(sorted)>> \o InsertByDate(Tail(sorted), t)
         ELSE <<t>> \o sorted

RECURSIVE SortedNewestFirst(_)
SortedNewestFirst(s) ==
    IF s = << >> THEN << >>
    ELSE InsertByDate(SortedNewestFirst(SubSeq(s, 1, Len(s) - 1)), s[Len(s)])

\* Does get_user_transactions synthesize a history (no cached one)?
Synthesizes(w, username) ==
    /\ get_user(w.data, username) # None
    /\ ~("transactions" \in DOMAIN w.ss /\ w.ss.transactions # << >>)

\* CGBankDatabase.get_user_transactions; rnd[i] is the random draw for template i.
get_user_transactions(w, username, rnd, t) ==
    LET u == get_user(w.data, username)
        templates == w.data.transactions_history
        fresh == [i \in 1..Len(templates) |->
                    [date |-> t - rnd[i].days,
                     description |-> templates[i].name,
                     amount |-> templates[i].amt,
                     balance |-> w.data.users[u].balance - rnd[i].off]]
        transactions == SortedNewestFirst(fresh)
    IN IF u = None THEN [w |-> w, ret |-> << >>]
       ELSE IF "transactions" \in DOMAIN w.ss /\ w.ss.transactions # << >>
            THEN [w |-> w, ret |-> w.ss.transactions]
            ELSE [w |-> [w EXCEPT !.ss = Put(w.ss, "transactions", transactions)],
                  ret |-> transactions]

\* The random draws a call of get_user_transactions consumes.
Draws(w, username) ==
    IF Synthesizes(w, username)
    THEN [1..Len(w.data.transactions_history) -> RandomDraws]
    ELSE {<< >>}

\* An add_transaction that appends: transactions.append(new_transaction).
add_transaction_at_tail(w, username, description, amount, rnd, t, outcome) ==
    LET u == get_user(w.data, username)
        got == get_user_transactions(w, username, rnd, t)
        new_transaction ==
            [date |-> t, description |-> description, amount |-> amount,
             balance |-> w.data.users[u].balance + amount]
        transactions == Append(got.ret, new_transaction)
        data1 == [got.w.data EXCEPT
                    !.users[u].balance = @ + amount,
                    !.transactions_history =
                        Append(@, [name |-> description, amt |-> amount])]
        w1 == [got.w EXCEPT !.data = data1,
                            !.ss = Put(got.w.ss, "transactions", transactions)]
    IN IF u = None THEN [w |-> w, ret |-> FALSE]
       ELSE _save_data(w1, outcome)

\* CGBankDatabase.add_transaction of cra.py.
add_transaction(w, username, description, amount, rnd, t, outcome) ==
    LET u == get_user(w.data, username)
        got == get_user_transactions(w, username, rnd, t)
        new_transaction ==
            [date |-> t, description |-> description, amount |-> amount,
             balance |-> w.data.users[u].balance + amount]
        transactions == <<new_transaction>> \o got.ret
        data1 == [got.w.data EXCEPT
                    !.users[u].balance = @ + amount,
                    !.transactions_history =
                        Append(@, [name |-> description, amt |-> amount])]
        w1 == [got.w EXCEPT !.data = data1,
                            !.ss = Put(got.w.ss, "transactions", transactions)]
    IN IF u = None THEN [w |-> w, ret |-> FALSE]
       ELSE _save_data(w1, outcome)

\* CGBankDatabase.add_transaction of bank.py: nothing is saved.
bank_add_transaction(w, username, description, amount, rnd, t) ==
    LET u == get_user(w.data, username)
        got == get_user_transactions(w, username, rnd, t)
        new_balance == w.data.users[u].balance + amount
        new_transaction ==
            [date |-> t, description |-> description, amount |-> amount,
             balance |-> new_balance]
        transactions == <<new_transaction>> \o got.ret
        w1 == [got.w EXCEPT !.data.users[u].balance = new_balance,
                            !.ss = Put(got.w.ss, "transactions", transactions)]
    IN IF u = None THEN [w |-> w, ret |-> FALSE]
       ELSE [w |-> w1, ret |-> TRUE]

\* [bill for bill in BANK_DATA['bills'] if bill['name'] != bill_name]
RECURSIVE BillsNotNamed(_, _)
BillsNotNamed(bills, bill_name) ==
    IF bills = << >> THEN << >>
    ELSE IF Head(bills).name # bill_name
         THEN <<Head(bills)>> \o BillsNotNamed(Tail(bills), bill_name)
         ELSE BillsNotNamed(Tail(bills), bill_name)

\* CGBankDatabase.add_bill_payment (cra.py only); outcomes[1] is the save
\* inside add_transaction, outcomes[2] the save after the bill is removed.
\* The result also carries `debited`: whether the inner add_transaction
\* returned True.
add_bill_payment(w, username, bill_name, amount, rnd, t, outcomes) ==
    LET u == get_user(w.data, username)
        paid == add_transaction(w, username, <<"Bill Payment: ", bill_name>>,
                                0 - amount, rnd, t, outcomes[1])
        w1 == [paid.w EXCEPT !.data.bills = BillsNotNamed(@, bill_name)]
        saved == _save_data(w1, outcomes[2])
    IN IF u = None THEN [w |-> w, ret |-> FALSE, debited |-> FALSE]
       ELSE IF ~paid.ret THEN [w |-> paid.w, ret |-> FALSE, debited |-> FALSE]
       ELSE [w |-> saved.w, ret |-> saved.ret, debited |-> TRUE]

\* CGBankDatabase.add_new_bill (cra.py only).
add_new_bill(w, username, bill_data, outcome) ==
    _save_data([w EXCEPT !.data.bills = Append(@, bill_data)], outcome)

\* CGBankApp._initialize_session_state: a default for every missing key.
SessionDefaults ==
    [logged_in |-> FALSE, current_user |-> None, page |-> "login",
     transactions |-> << >>, download_link |-> NoLink, show_create_account |-> FALSE,
     bot_conversation |-> << >>]

_initialize_session_state(ss) ==
    [k \in (DOMAIN ss) \cup (DOMAIN SessionDefaults) |->
        IF k \in DOMAIN ss THEN ss[k] ELSE SessionDefaults[k]]

(***************************************************************************)
(* Initial state: the first script run has loaded dummydata.json and       *)
(* constructed CGBankApp; nobody is logged in.                             *)
(***************************************************************************)
NoCall ==
    [op |-> "none", username |-> None, name |-> None, amount |-> 0, saves |-> << >>,
     message |-> << >>, stash |-> NoLink, password |-> None]

NoReport ==
    [start_date |-> 0, end_date |-> 0, total_transactions |-> 0, total_credit |-> 0,
     total_debit |-> 0, net_change |-> 0, transactions |-> << >>]

\* A response: which text it is, and the values formatted into it.
Response(kind) ==
    [kind |-> kind, link |-> NoLink, balance |-> 0, report |-> NoReport,
     transactions |-> << >>]

NoResponse == Response("none")

\* Two more browser sessions on the same server.  Each script run executes
\* the module from the top, so it has its own BANK_DATA, read from the file.
Runs == {1, 2}
NoRun ==
    [pc |-> "idle", data |-> InitialDocument, ss |-> SessionDefaults, amount |-> 0,
     success |-> FALSE]

Init ==
    /\ variant \in {"cra", "bank"}
    /\ BANK_DATA = InitialDocument
    /\ disk = [valid |-> TRUE, doc |-> BANK_DATA]
    /\ session_state = _initialize_session_state(<< >>)
    /\ now = 0
    /\ call = NoCall
    /\ ret = FALSE
    /\ response = NoResponse
    /\ pdf_calls = 0
    /\ classified = [text |-> << >>, intent |-> None]
    /\ earlier = [text |-> << >>, intent |-> None]
    /\ runs = [r \in Runs |-> NoRun]
    /\ applied = [k \in UserKeys |-> 0]
    /\ nops = 0

Commit(w) ==
    /\ BANK_DATA' = w.data
    /\ disk' = w.disk
    /\ session_state' = w.ss

\* `applied` after an add_transaction call on `username` that returned `ok`.
Tally(username, amount, ok) ==
    LET u == get_user(BANK_DATA, username)
    IN IF ok /\ u # None THEN [applied EXCEPT ![u] = @ + amount] ELSE applied

\* Time passes.
Tick ==
    /\ now < MaxNow
    /\ now' = now + 1
    /\ call' = [NoCall EXCEPT !.op = "tick"]
    /\ ret' = FALSE
    /\ UNCHANGED <<runs, variant, classified, earlier, BANK_DATA, disk, session_state, applied, nops, response, pdf_calls>>

(***************************************************************************)
(* The methods of CGBankDatabase called directly, with any arguments,      *)
(* within one script run.                                                  *)
(***************************************************************************)
ApiAddTransaction ==
    /\ nops < MaxApiCalls
    /\ \E username \in UsernameInputs, amount \in AmountInputs,
          outcome \in (IF variant = "cra" THEN SaveOutcomes ELSE {"ok"}) :
       \E rnd \in Draws(World, username) :
          LET r == IF variant = "cra"
                   THEN add_transaction(World, username, <<"Transfer to ", "X">>,
                                        amount, rnd, now, outcome)
                   ELSE bank_add_transaction(World, username, <<"Transfer to ", "X">>,
                                             amount, rnd, now)
          IN /\ Commit(r.w)
             /\ ret' = r.ret
             /\ call' = [op |-> "add_transaction", username |-> username, name |-> None,
                         amount |-> amount, saves |-> <<outcome>>, message |-> << >>, stash |-> NoLink, password |-> None]
             /\ applied' = Tally(username, amount, r.ret)
    /\ nops' = nops + 1
    /\ UNCHANGED <<runs, variant, classified, earlier, now, response, pdf_calls>>

ApiAddBillPayment ==
    /\ variant = "cra"
    /\ nops < MaxApiCalls
    /\ \E username \in UsernameInputs, bill_name \in BillerInputs,
          amount \in BillAmountInputs, o1 \in SaveOutcomes :
       \E o2 \in (IF o1 = "ok" THEN SaveOutcomes ELSE {"ok"}), rnd \in Draws(World, username) :
          LET r == add_bill_payment(World, username, bill_name, amount, rnd, now, <<o1, o2>>)
          IN /\ Commit(r.w)
             /\ ret' = r.ret
             /\ call' = [op |-> "add_bill_payment", username |-> username,
                         name |-> bill_name, amount |-> amount, saves |-> <<o1, o2>>, message |-> << >>, stash |-> NoLink, password |-> None]
             /\ applied' = Tally(username, 0 - amount, r.debited)
    /\ nops' = nops + 1
    /\ UNCHANGED <<runs, variant, classified, earlier, now, response, pdf_calls>>

ApiAddNewBill ==
    /\ variant = "cra"
    /\ nops < MaxApiCalls
    /\ \E username \in UsernameInputs, biller \in BillerInputs,
          amount \in BillAmountInputs, outcome \in SaveOutcomes :
          LET new_bill == [name |-> biller, amount |-> amount,
                           due |-> now + 30, status |-> "Upcoming"]
              r == add_new_bill(World, username, new_bill, outcome)
          IN /\ Commit(r.w)
             /\ ret' = r.ret
             /\ call' = [op |-> "add_new_bill", username |-> username,
                         name |-> biller, amount |-> amount, saves |-> <<outcome>>, message |-> << >>, stash |-> NoLink, password |-> None]
    /\ nops' = nops + 1
    /\ UNCHANGED <<runs, variant, classified, earlier, now, applied, response, pdf_calls>>

ApiGetUserTransactions ==
    /\ \E username \in UsernameInputs :
       \E rnd \in Draws(World, username) :
          LET r == get_user_transactions(World, username, rnd, now)
          IN /\ Commit(r.w)
             /\ ret' = (r.ret # << >>)
             /\ call' = [op |-> "get_user_transactions", username |-> username,
                         name |-> None, amount |-> 0, saves |-> << >>, message |-> << >>, stash |-> NoLink, password |-> None]
    /\ UNCHANGED <<runs, variant, classified, earlier, now, applied, nops, response, pdf_calls>>

NextApi ==
    \/ ApiAddTransaction
    \/ ApiAddBillPayment
    \/ ApiAddNewBill
    \/ ApiGetUserTransactions

SpecApi == Init /\ [][NextApi]_vars

(***************************************************************************)
(* RexaBot: the intent classifier.  A string is the tuple of its           *)
(* characters.                                                             *)
(***************************************************************************)
\* The characters of the model's strings, in code point order.
Alphabet ==
    << " ", "'", "?", "E", "I", "S", "W", "Y", "a", "b", "c", "d", "e",
       "f", "g", "h", "i", "j", "k", "l", "m", "n", "o", "p", "q", "r",
       "s", "t", "u", "v", "w", "x", "y", "z" >>

Ord(c) == CHOOSE i \in DOMAIN Alphabet : Alphabet[i] = c

\* str.lower(), character by character.
LowerChar(c) ==
    CASE c = "E" -> "e"
      [] c = "I" -> "i"
      [] c = "S" -> "s"
      [] c = "W" -> "w"
      [] c = "Y" -> "y"
      [] OTHER -> c

lower(str) == [i \in DOMAIN str |-> LowerChar(str[i])]

\* \w of the regular expression: letters (digits and "_" do not occur).
IsWordChar(c) == c \notin {" ", "'", "?"}

\* RexaBot.service_keywords, in declaration order.  The last list has
\* 'account statement' 'report for month' without a comma between them:
\* Python joins the two literals into one phrase.
service_keywords == <<
    [intent |-> "balance_inquiry", keywords |-> <<
        <<"b","a","l","a","n","c","e">>,
        <<"a","c","c","o","u","n","t"," ","b","a","l","a","n","c","e">>,
        <<"h","o","w"," ","m","u","c","h"," ","m","o","n","e","y">>,
        <<"c","h","e","c","k"," ","b","a","l","a","n","c","e">>,
        <<"c","u","r","r","e","n","t"," ","b","a","l","a","n","c","e">>,
        <<"w","h","a","t"," ","d","o"," ","i"," ","h","a","v","e">>,
        <<"f","u","n","d","s"," ","a","v","a","i","l","a","b","l","e">>,
        <<"a","v","a","i","l","a","b","l","e"," ","b","a","l","a","n","c","e">>,
        <<"r","e","m","a","i","n","i","n","g"," ","b","a","l","a","n","c","e">>,
        <<"a","c","c","o","u","n","t"," ","s","u","m","m","a","r","y">>
    >>],
    [intent |-> "transaction_history", keywords |-> <<
        <<"t","r","a","n","s","a","c","t","i","o","n">>,
        <<"h","i","s","t","o","r","y">>,
        <<"s","t","a","t","e","m","e","n","t">>,
        <<"r","e","c","e","n","t"," ","t","r","a","n","s","a","c","t","i","o","n","s">>,
        <<"l","a","s","t"," ","t","r","a","n","s","a","c","t","i","o","n","s">>,
        <<"p","a","s","t"," ","p","a","y","m","e","n","t","s">>,
        <<"m","y"," ","s","p","e","n","d","i","n","g">>,
        <<"p","a","s","t"," ","e","x","p","e","n","s","e","s">>,
        <<"p","a","y","m","e","n","t"," ","h","i","s","t","o","r","y">>,
        <<"t","r","a","n","s","a","c","t","i","o","n"," ","d","e","t","a","i","l","s">>,
        <<"t","r","a","n","s","a","c","t","i","o","n"," ","s","u","m","m","a","r","y">>
    >>],
    [intent |-> "fund_transfer", keywords |-> <<
        <<"t","r","a","n","s","f","e","r">>,
        <<"s","e","n","d"," ","m","o","n","e","y">>,
        <<"t","r","a","n","s","f","e","r"," ","m","o","n","e","y">>,
        <<"t","r","a","n","s","f","e","r"," ","f","u","n","d","s">>,
        <<"m","o","v","e"," ","m","o","n","e","y">>,
        <<"p","a","y"," ","s","o","m","e","o","n","e">>,
        <<"s","e","n","d"," ","t","o"," ","f","r","i","e","n","d">>,
        <<"w","i","r","e"," ","t","r","a","n","s","f","e","r">>,
        <<"r","e","m","i","t">>,
        <<"s","e","n","d"," ","c","a","s","h">>
    >>],
    [intent |-> "bill_payment", keywords |-> <<
        <<"p","a","y"," ","b","i","l","l">>,
        <<"b","i","l","l"," ","p","a","y","m","e","n","t">>,
        <<"u","t","i","l","i","t","y"," ","b","i","l","l">>,
        <<"e","l","e","c","t","r","i","c","i","t","y"," ","b","i","l","l">>,
        <<"w","a","t","e","r"," ","b","i","l","l">>,
        <<"g","a","s"," ","b","i","l","l">>,
        <<"p","h","o","n","e"," ","b","i","l","l">>,
        <<"i","n","t","e","r","n","e","t"," ","b","i","l","l">>,
        <<"c","r","e","d","i","t"," ","c","a","r","d"," ","b","i","l","l">>,
        <<"m","o","b","i","l","e"," ","r","e","c","h","a","r","g","e">>
    >>],
    [intent |-> "bank_info", keywords |-> <<
        <<"a","b","o","u","t"," ","c","g","b","a","n","k">>,
        <<"b","a","n","k"," ","i","n","f","o","r","m","a","t","i","o","n">>,
        <<"b","a","n","k"," ","d","e","t","a","i","l","s">>,
        <<"w","h","a","t"," ","i","s"," ","c","g","b","a","n","k">>,
        <<"b","a","n","k"," ","s","e","r","v","i","c","e","s">>,
        <<"p","r","o","d","u","c","t","s"," ","o","f","f","e","r","e","d">>,
        <<"b","a","n","k"," ","f","e","a","t","u","r","e","s">>,
        <<"b","r","a","n","c","h"," ","l","o","c","a","t","i","o","n","s">>,
        <<"c","o","n","t","a","c","t"," ","b","a","n","k">>,
        <<"b","a","n","k"," ","t","i","m","i","n","g","s">>
    >>],
    [intent |-> "loan_info", keywords |-> <<
        <<"l","o","a","n">>,
        <<"b","o","r","r","o","w">>,
        <<"c","r","e","d","i","t">>,
        <<"h","o","m","e"," ","l","o","a","n">>,
        <<"p","e","r","s","o","n","a","l"," ","l","o","a","n">>,
        <<"c","a","r"," ","l","o","a","n">>,
        <<"e","d","u","c","a","t","i","o","n"," ","l","o","a","n">>,
        <<"i","n","t","e","r","e","s","t"," ","r","a","t","e","s">>,
        <<"e","l","i","g","i","b","i","l","i","t","y">>,
        <<"h","o","w"," ","t","o"," ","a","p","p","l","y">>,
        <<"m","o","r","t","g","a","g","e">>,
        <<"v","e","h","i","c","l","e"," ","l","o","a","n">>,
        <<"s","t","u","d","e","n","t"," ","l","o","a","n">>
    >>],
    [intent |-> "scheme_info", keywords |-> <<
        <<"m","o","d","i"," ","s","c","h","e","m","e">>,
        <<"p","m"," ","f","a","r","m","e","r"," ","s","c","h","e","m","e">>,
        <<"t","h","a","n","g","a","m","a","g","a","l"," ","s","c","h","e","m","e">>,
        <<"g","o","v","e","r","n","m","e","n","t"," ","s","c","h","e","m","e">>,
        <<"s","c","h","e","m","e"," ","d","e","t","a","i","l","s">>,
        <<"s","c","h","e","m","e"," ","i","n","f","o","r","m","a","t","i","o","n">>,
        <<"s","u","b","s","i","d","y">>,
        <<"f","a","r","m","e","r"," ","b","e","n","e","f","i","t","s">>,
        <<"w","o","m","e","n"," ","b","e","n","e","f","i","t","s">>,
        <<"a","g","r","i","c","u","l","t","u","r","a","l"," ","s","c","h","e","m","e">>
    >>],
    [intent |-> "account_info", keywords |-> <<
        <<"a","c","c","o","u","n","t">>,
        <<"a","c","c","o","u","n","t"," ","t","y","p","e">>,
        <<"s","t","u","d","e","n","t"," ","a","c","c","o","u","n","t">>,
        <<"n","r","i"," ","a","c","c","o","u","n","t">>,
        <<"s","e","n","i","o","r"," ","a","c","c","o","u","n","t">>,
        <<"h","o","w"," ","t","o"," ","o","p","e","n"," ","n","e","w"," ","a","c","c">>,
        <<"a","c","c","o","u","n","t"," ","t","y","p","e","s">>,
        <<"n","e","w"," ","a","c","c","o","u","n","t">>,
        <<"c","r","e","a","t","e"," ","a","c","c","o","u","n","t">>,
        <<"o","p","e","n"," ","a","c","c","o","u","n","t">>,
        <<"a","c","c","o","u","n","t"," ","o","p","e","n","i","n","g">>,
        <<"h","o","w"," ","t","o"," ","c","r","e","a","t","e"," ","a","c","c","o","u","n","t">>
    >>],
    [intent |-> "monthly_report", keywords |-> <<
        <<"m","o","n","t","h","l","y"," ","r","e","p","o","r","t">>,
        <<"m","o","n","t","h","l","y"," ","s","t","a","t","e","m","e","n","t">>,
        <<"m","o","n","t","h","l","y"," ","s","u","m","m","a","r","y">>,
        <<"m","o","n","t","h","l","y"," ","t","r","a","n","s","a","c","t","i","o","n","s">>,
        <<"m","o","n","t","h","l","y"," ","s","p","e","n","d","i","n","g">>,
        <<"m","o","n","t","h","l","y"," ","a","n","a","l","y","s","i","s">>,
        <<"a","c","c","o","u","n","t"," ","s","t","a","t","e","m","e","n","t","r","e","p","o","r","t"," ","f","o","r"," ","m","o","n","t","h">>,
        <<"s","t","a","t","e","m","e","n","t"," ","f","o","r"," ","m","o","n","t","h">>
    >>]
>>

Range(f) == {f[i] : i \in DOMAIN f}

\* Is there a \b between str[i] and str[i+1] (i = 0: the start, i = Len: the end)?
WordBoundary(str, i) ==
    LET before == i >= 1 /\ IsWordChar(str[i])
        after == i < Len(str) /\ IsWordChar(str[i + 1])
    IN before # after

\* re.search(r'\b' + re.escape(keyword) + r'\b', message)
re_search(keyword, message) ==
    \E i \in 1..(Len(message) - Len(keyword) + 1) :
        /\ SubSeq(message, i, i + Len(keyword) - 1) = keyword
        /\ WordBoundary(message, i - 1)
        /\ WordBoundary(message, i + Len(keyword) - 1)

\* 'word in message' of Python: a plain substring test.
Contains(message, word) ==
    \E i \in 1..(Len(message) - Len(word) + 1) :
        SubSeq(message, i, i + Len(word) - 1) = word

(***************************************************************************)
(* difflib.get_close_matches(word, possibilities, n=1, cutoff=0.6), as     *)
(* called by _identify_intent.  SequenceMatcher has seq1 = the possibility *)
(* and seq2 = the word; strings this short have no junk.                   *)
(***************************************************************************)
RECURSIVE CommonPrefix(_, _, _, _, _, _)
CommonPrefix(a, i, ahi, b, j, bhi) ==
    IF i > ahi \/ j > bhi THEN 0
    ELSE IF a[i] # b[j] THEN 0
    ELSE 1 + CommonPrefix(a, i + 1, ahi, b, j + 1, bhi)

\* SequenceMatcher.find_longest_match on a[alo..ahi], b[blo..bhi]: the
\* longest block, the one starting earliest in a, then earliest in b.
find_longest_match(a, alo, ahi, b, blo, bhi) ==
    LET size == [i \in alo..ahi |-> [j \in blo..bhi |-> CommonPrefix(a, i, ahi, b, j, bhi)]]
        best == CHOOSE k \in 0..(ahi - alo + 1) :
                    /\ k = 0 \/ \E i \in alo..ahi, j \in blo..bhi : size[i][j] = k
                    /\ \A i \in alo..ahi, j \in blo..bhi : size[i][j] <= k
        besti == CHOOSE i \in alo..ahi :
                    /\ \E j \in blo..bhi : size[i][j] = best
                    /\ \A i2 \in alo..(i - 1), j \in blo..bhi : size[i2][j] # best
        bestj == CHOOSE j \in blo..bhi :
                    /\ size[besti][j] = best
                    /\ \A j2 \in blo..(j - 1) : size[besti][j2] # best
    IN IF best = 0 THEN [i |-> alo, j |-> blo, size |-> 0]
       ELSE [i |-> besti, j |-> bestj, size |-> best]

\* Sum of the sizes of SequenceMatcher.get_matching_blocks: the longest
\* block m, then the blocks to its left and to its right.
RECURSIVE MatchingChars(_, _, _, _, _, _)
AroundBlock(m, a, alo, ahi, b, blo, bhi) ==
    IF m.size = 0 THEN 0
    ELSE m.size
         + MatchingChars(a, alo, m.i - 1, b, blo, m.j - 1)
         + MatchingChars(a, m.i + m.size, ahi, b, m.j + m.size, bhi)

MatchingChars(a, alo, ahi, b, blo, bhi) ==
    IF alo > ahi \/ blo > bhi THEN 0
    ELSE AroundBlock(find_longest_match(a, alo, ahi, b, blo, bhi), a, alo, ahi, b, blo, bhi)

Min(x, y) == IF x <= y THEN x ELSE y
Count(str, c) == Cardinality({i \in DOMAIN str : str[i] = c})

\* 2.0 * matches / (len(a) + len(b)) >= 0.6, in integers.
RatioAtLeastCutoff(matches, la, lb) == 10 * 2 * matches >= 6 * (la + lb)

\* SequenceMatcher.real_quick_ratio and quick_ratio: upper bounds of ratio.
real_quick_matches(a, b) == Min(Len(a), Len(b))

RECURSIVE SumOver(_, _, _)
SumOver(chars, a, b) ==
    IF chars = {} THEN 0
    ELSE LET c == CHOOSE x \in chars : TRUE
         IN Min(Count(a, c), Count(b, c)) + SumOver(chars \ {c}, a, b)

quick_matches(a, b) == SumOver(Range(b), a, b)

\* x < y for Python strings.
RECURSIVE StrLess(_, _)
StrLess(x, y) ==
    IF y = << >> THEN FALSE
    ELSE IF x = << >> THEN TRUE
    ELSE IF Head(x) = Head(y) THEN StrLess(Tail(x), Tail(y))
    ELSE Ord(Head(x)) < Ord(Head(y))

\* The candidates that pass real_quick_ratio, quick_ratio and ratio, each
\* with its number of matching characters.
Scored(word, possibilities) ==
    {s \in {[x |-> x, matches |-> MatchingChars(x, 1, Len(x), word, 1, Len(word))] :
              x \in {x \in possibilities :
                       /\ RatioAtLeastCutoff(real_quick_matches(x, word), Len(x), Len(word))
                       /\ RatioAtLeastCutoff(quick_matches(x, word), Len(x), Len(word))}} :
        RatioAtLeastCutoff(s.matches, Len(s.x), Len(word))}

\* heapq.nlargest(1, result): the highest ratio (cross-multiplied), of equal
\* ratios the greatest string.
Largest(result, n) ==
    IF result = {} THEN << >>
    ELSE << (CHOOSE s \in result :
               \A t \in result \ {s} :
                   \/ s.matches * (Len(t.x) + n) > t.matches * (Len(s.x) + n)
                   \/ /\ s.matches * (Len(t.x) + n) = t.matches * (Len(s.x) + n)
                      /\ StrLess(t.x, s.x)).x >>

\* The result list of get_close_matches with n = 1.
get_close_matches(word, possibilities) == Largest(Scored(word, possibilities), Len(word))

\* [kw for sublist in self.service_keywords.values() for kw in sublist]
all_keywords == UNION {Range(service_keywords[c].keywords) : c \in DOMAIN service_keywords}

\* The last category, in declaration order, among `hits`.
LastCategory(hits) ==
    IF hits = {} THEN None
    ELSE service_keywords[CHOOSE c \in hits : \A d \in hits : c >= d].intent

\* The first category, in declaration order, among `hits`.
FirstCategory(hits) ==
    IF hits = {} THEN None
    ELSE service_keywords[CHOOSE c \in hits : \A d \in hits : c <= d].intent

\* Lines 759-761: the first category with a keyword found as a whole word.
ExactIntent(msg) ==
    FirstCategory({c \in DOMAIN service_keywords :
                     \E keyword \in Range(service_keywords[c].keywords) :
                         re_search(keyword, msg)})

\* Lines 766-770: the category that owns the closest keyword.
FuzzyIntent(matches) ==
    IF matches # << >>
    THEN FirstCategory({c \in DOMAIN service_keywords :
                          matches[1] \in Range(service_keywords[c].keywords)})
    ELSE None

OrElse(exact, fuzzy) == IF exact # None THEN exact ELSE fuzzy

\* A classifier that answers only while the session holds a download_link slot.
SlotAwareIntent(message) ==
    IF "download_link" \in DOMAIN session_state
    THEN OrElse(ExactIntent(lower(message)),
                FuzzyIntent(get_close_matches(lower(message), all_keywords)))
    ELSE None

\* RexaBot._identify_intent
_identify_intent(message) ==
    OrElse(ExactIntent(lower(message)),
           FuzzyIntent(get_close_matches(lower(message), all_keywords)))

\* The messages the model sends to the assistant.
MsgYes == <<"y","e","s">>
MsgY == <<"y">>
MsgDownload == <<"d","o","w","n","l","o","a","d">>
MsgDownloadReport == <<"d","o","w","n","l","o","a","d"," ","r","e","p","o","r","t">>
MsgNo == <<"n","o">>
MsgN == <<"n">>
MsgCancel == <<"c","a","n","c","e","l">>
MsgYesUpper == <<"Y","E","S">>
MsgMonthlyReport == <<"m","o","n","t","h","l","y"," ","r","e","p","o","r","t">>
MsgHello == <<"h","e","l","l","o">>
MsgThanks == <<"t","h","a","n","k","s">>
MsgBalance == <<"W","h","a","t","'","s"," ","m","y"," ","c","u","r","r","e","n","t"," ","b","a","l","a","n","c","e","?">>
MsgTransfer == <<"I"," ","w","a","n","t"," ","t","o"," ","t","r","a","n","s","f","e","r"," ","m","o","n","e","y">>

MsgTransactionHistory == <<"t","r","a","n","s","a","c","t","i","o","n"," ","h","i","s","t","o","r","y">>
MsgRecent == <<"r","e","c","e","n","t"," ","t","r","a","n","s","a","c","t","i","o","n","s">>
MsgPayBill == <<"p","a","y"," ","b","i","l","l">>

MsgAccountBalance == <<"a","c","c","o","u","n","t"," ","b","a","l","a","n","c","e">>
MsgMonthlyStatement == <<"m","o","n","t","h","l","y"," ","s","t","a","t","e","m","e","n","t">>

MessageInputs ==
    {MsgYes, MsgY, MsgDownload, MsgDownloadReport, MsgNo,
     MsgN, MsgCancel, MsgYesUpper, MsgMonthlyReport, MsgHello,
     MsgThanks, MsgBalance, MsgTransfer, MsgTransactionHistory, MsgRecent,
     MsgPayBill}

\* The texts the model classifies directly.
ClassifierInputs == {MsgTransfer, MsgAccountBalance, MsgMonthlyStatement, MsgCancel}

\* _identify_intent reads nothing but its argument and service_keywords: its
\* value for each text of the model.
IntentTable ==
    [m \in ClassifierInputs \cup {lower(m0) : m0 \in MessageInputs} |-> _identify_intent(m)]

\* What a call of _identify_intent on `text` leaves in `classified`.
Classification(text) == [text |-> text, intent |-> IntentTable[text]]

(***************************************************************************)
(* RexaBot: the monthly report and the dialogue.                           *)
(***************************************************************************)
ReportWindowDays == 30

RECURSIVE SumAmounts(_)
SumAmounts(txns) ==
    IF txns = << >> THEN 0 ELSE Head(txns).amount + SumAmounts(Tail(txns))

\* abs() left out.
Signed(x) == x

Abs(x) == IF x < 0 THEN 0 - x ELSE x

\* RexaBot._generate_monthly_report; `none` says that it returned None.
_generate_monthly_report(w, username, rnd, t) ==
    LET got == get_user_transactions(w, username, rnd, t)
        last_month == t - ReportWindowDays
        df_last_month == SelectSeq(got.ret, LAMBDA txn : txn.date >= last_month)
        total_credit == SumAmounts(SelectSeq(df_last_month, LAMBDA txn : txn.amount > 0))
        total_debit == Abs(SumAmounts(SelectSeq(df_last_month, LAMBDA txn : txn.amount < 0)))
        report == [start_date |-> last_month, end_date |-> t,
                   total_transactions |-> Len(df_last_month),
                   total_credit |-> total_credit, total_debit |-> total_debit,
                   net_change |-> total_credit - total_debit,
                   transactions |-> df_last_month]
    IN IF got.ret = << >> THEN [w |-> got.w, none |-> TRUE, ret |-> NoReport]
       ELSE IF df_last_month = << >> THEN [w |-> got.w, none |-> TRUE, ret |-> NoReport]
       ELSE [w |-> got.w, none |-> FALSE, ret |-> report]

\* RexaBot._create_pdf_report: None without an account or when the PDF
\* generator raises, else the PDF.  `generated` counts the generator calls.
_create_pdf_report(w, username, pdf_outcome) ==
    IF get_user(w.data, username) = None THEN [ok |-> FALSE, generated |-> 0]
    ELSE [ok |-> pdf_outcome = "ok", generated |-> 1]

\* RexaBot._create_download_link: the link, or the error text when encoding raises.
_create_download_link(username, t, link_outcome) ==
    IF link_outcome = "ok" THEN [kind |-> "href", user |-> username, at |-> t]
    ELSE [kind |-> "error", user |-> None, at |-> 0]

GreetingWords ==
    {<<"h","e","l","l","o">>,
     <<"h","i">>,
     <<"h","e","y">>,
     <<"g","o","o","d"," ","m","o","r","n","i","n","g">>,
     <<"g","o","o","d"," ","a","f","t","e","r","n","o","o","n">>,
     <<"g","o","o","d"," ","e","v","e","n","i","n","g">>}

ThanksWords ==
    {<<"t","h","a","n","k">>,
     <<"t","h","a","n","k","s">>,
     <<"a","p","p","r","e","c","i","a","t","e">>}

AffirmativeTokens ==
    {<<"y","e","s">>,
     <<"y">>,
     <<"d","o","w","n","l","o","a","d">>,
     <<"d","o","w","n","l","o","a","d"," ","r","e","p","o","r","t">>}

NegativeTokens ==
    {<<"n","o">>,
     <<"n">>,
     <<"c","a","n","c","e","l">>}

\* A greeting rule that yields to a recognised intent.
GreetingUnlessIntent(message) ==
    /\ IntentTable[message] = None
    /\ \E word \in GreetingWords : Contains(message, word)

\* any(word in message for word in ['hello', 'hi', ...])
IsGreeting(message) == \E word \in GreetingWords : Contains(message, word)

\* any(word in message for word in ['thank', 'thanks', 'appreciate'])
IsThanks(message) == \E word \in ThanksWords : Contains(message, word)

Take(seq, n) == SubSeq(seq, 1, Min(n, Len(seq)))

\* The random draws a call of process_message consumes.
MessageDraws(w, message, username) ==
    IF username # None /\ IntentTable[lower(message)] \in {"monthly_report", "transaction_history"}
    THEN Draws(w, username)
    ELSE {<< >>}

\* The outcomes of PDF generation and link encoding a message can meet.
RendererChoices(message) ==
    IF IntentTable[lower(message)] = "monthly_report" THEN {"ok", "failed"} ELSE {"ok"}

\* RexaBot.process_message.  username is None for a visitor who is not logged
\* in.  Returns the world after it, the response and the number of PDF
\* generator calls it made.
process_message(w, message0, username, rnd, t, pdf_outcome, link_outcome) ==
    LET message == lower(message0)
        u == IF username # None THEN get_user(w.data, username) ELSE None
        intent == IntentTable[message]
        Reply(kind) == [w |-> w, ret |-> Response(kind), pdf_calls |-> 0]
        made == _generate_monthly_report(w, username, rnd, t)
        pdf == _create_pdf_report(made.w, username, pdf_outcome)
        download_link == _create_download_link(username, t, link_outcome)
        shown == get_user_transactions(w, username, rnd, t)
    IN IF IsGreeting(message)
       THEN (IF u # None THEN Reply("greeting_by_name") ELSE Reply("greeting"))
       ELSE IF IsThanks(message)
       THEN Reply("thanks")
       ELSE IF intent = "monthly_report"
       THEN (IF u = None THEN Reply("login_to_view_report")
             ELSE IF made.none
             THEN [w |-> made.w, ret |-> Response("no_transactions_last_month"), pdf_calls |-> 0]
             ELSE IF pdf.ok
             THEN [w |-> [made.w EXCEPT !.ss = Put(made.w.ss, "download_link", download_link)],
                   ret |-> [Response("report_summary") EXCEPT !.report = made.ret],
                   pdf_calls |-> pdf.generated]
             ELSE [w |-> made.w, ret |-> Response("pdf_failed"), pdf_calls |-> pdf.generated])
       ELSE IF message \in AffirmativeTokens /\ "download_link" \in DOMAIN w.ss
       THEN [w |-> [w EXCEPT !.ss = Del(w.ss, "download_link")],
             ret |-> [Response("download_link") EXCEPT !.link = w.ss.download_link],
             pdf_calls |-> 0]
       ELSE IF message \in NegativeTokens /\ "download_link" \in DOMAIN w.ss
       THEN [w |-> [w EXCEPT !.ss = Del(w.ss, "download_link")],
             ret |-> Response("download_cancelled"),
             pdf_calls |-> 0]
       ELSE IF intent = "balance_inquiry"
       THEN (IF u # None
             THEN [w |-> w,
                   ret |-> [Response("balance") EXCEPT !.balance = w.data.users[u].balance],
                   pdf_calls |-> 0]
             ELSE Reply("login_to_check_balance"))
       ELSE IF intent = "transaction_history"
       THEN (IF u # None
             THEN (IF shown.ret = << >>
                   THEN [w |-> shown.w, ret |-> Response("no_transactions_yet"), pdf_calls |-> 0]
                   ELSE [w |-> shown.w,
                         ret |-> [Response("recent_transactions") EXCEPT
                                     !.transactions = Take(shown.ret, 5)],
                         pdf_calls |-> 0])
             ELSE Reply("login_to_view_history"))
       ELSE IF intent = "fund_transfer"
       THEN (IF u # None THEN Reply("fund_transfer") ELSE Reply("login_to_transfer"))
       ELSE IF intent = "bill_payment"
       THEN (IF u # None THEN Reply("bill_payment") ELSE Reply("login_to_pay_bills"))
       ELSE IF intent \in {"bank_info", "loan_info", "account_info", "scheme_info"}
       THEN Reply(intent)
       ELSE Reply("ollama")

(***************************************************************************)
(* The Streamlit application.  Every interaction reruns the script from    *)
(* the top: BANK_DATA is read again from dummydata.json, CGBankApp is      *)
(* constructed again, and then the page's handler runs.  A handler that    *)
(* ends in st.rerun() starts one more run.                                 *)
(***************************************************************************)
\* The top of the script and CGBankApp.__init__.
ScriptRun(w) ==
    [w EXCEPT !.data = w.disk.doc, !.ss = _initialize_session_state(w.ss)]

\* CGBankDatabase.hash_password: the SHA-256 digest of password + salt, as
\* the text of what was digested; distinct inputs give distinct digests, and
\* no digest is its own input.
hash_password(password) == "sha256(" \o password \o "CGBank_Salt_Value_123!" \o ")"

\* CGBankDatabase.verify_user
verify_user(data, username, password) ==
    LET u == get_user(data, username)
    IN IF u = None THEN FALSE ELSE data.users[u].password = password

PasswordInputs == {"ravi123", "meena123"}
Pages == {"dashboard", "transfer", "bills"}
RecipientInputs == {"0987654321"}
TransferAmountInputs == {200}

LoggedIn == session_state.logged_in
CanRun == disk.valid

Results(r, resp, pdfs) ==
    /\ ret' = r
    /\ response' = resp
    /\ pdf_calls' = pdfs

PageCall(op, username, name, amount, saves) ==
    [op |-> op, username |-> username, name |-> name, amount |-> amount, saves |-> saves,
     message |-> << >>, stash |-> NoLink, password |-> None]

\* The state after a page handler that returned r, recorded as call c.
PageResult(r, c, amount) ==
    /\ Commit(r.w)
    /\ Results(r.ret, NoResponse, 0)
    /\ call' = c
    /\ applied' = Tally(c.username, amount, r.applied)

\* st.session_state.bot_conversation.append({'user': ..., 'bot': ...}); the
\* two texts of an exchange are left out.
Exchange == "exchange"
Said(w) == [w EXCEPT !.ss.bot_conversation = Append(@, Exchange)]

\* for conv in st.session_state.bot_conversation[-10:]
HistoryShown == 10

\* The state after process_message returned r: the exchange is appended to
\* the conversation and st.rerun() starts the next script run.
ChatResult(r, c) ==
    /\ Commit(ScriptRun(Said(r.w)))
    /\ Results(TRUE, r.ret, r.pdf_calls)
    /\ call' = c
    /\ classified' = Classification(lower(c.message))
    /\ UNCHANGED earlier

\* The state after a direct call of process_message returned r.
DirectResult(r, c) ==
    /\ Commit(r.w)
    /\ Results(TRUE, r.ret, r.pdf_calls)
    /\ call' = c
    /\ classified' = Classification(lower(c.message))
    /\ UNCHANGED earlier

\* st.session_state.download_link, None when the key is missing.
PendingSlot(ss) == IF "download_link" \in DOMAIN ss THEN ss.download_link ELSE NoLink

\* CGBankApp._render_login_form, the Login button.
Login ==
    /\ CanRun /\ ~LoggedIn /\ ~session_state.show_create_account
    /\ \E username \in UsernameInputs, password \in PasswordInputs :
       LET w0 == ScriptRun(World)
       IN \E rnd \in Draws(w0, username) :
          LET got == get_user_transactions(w0, username, rnd, now)
              ss1 == [got.w.ss EXCEPT !.logged_in = TRUE,
                                      !.current_user = Lower(username),
                                      !.page = "dashboard",
                                      !.transactions = got.ret]
              ok == verify_user(w0.data, username, password)
          IN /\ Commit(IF ok THEN ScriptRun([got.w EXCEPT !.ss = ss1]) ELSE w0)
             /\ Results(ok, NoResponse, 0)
             /\ call' = [PageCall("login", username, None, 0, << >>) EXCEPT
                             !.password = password]
    /\ UNCHANGED <<runs, variant, classified, earlier, now, applied, nops>>

\* A Logout button that leaves the page where it was.
LogoutKeepsPage ==
    /\ CanRun /\ LoggedIn
    /\ LET w0 == ScriptRun(World)
           ss1 == [w0.ss EXCEPT !.logged_in = FALSE, !.current_user = None]
       IN Commit(ScriptRun([w0 EXCEPT !.ss = ss1]))
    /\ Results(TRUE, NoResponse, 0)
    /\ call' = PageCall("logout", session_state.current_user, None, 0, << >>)
    /\ UNCHANGED <<runs, variant, classified, earlier, now, applied, nops>>

\* CGBankApp._render_sidebar, the Logout button.
Logout ==
    /\ CanRun /\ LoggedIn
    /\ LET w0 == ScriptRun(World)
           ss1 == [w0.ss EXCEPT !.logged_in = FALSE, !.current_user = None, !.page = "login"]
       IN Commit(ScriptRun([w0 EXCEPT !.ss = ss1]))
    /\ Results(TRUE, NoResponse, 0)
    /\ call' = PageCall("logout", session_state.current_user, None, 0, << >>)
    /\ UNCHANGED <<runs, variant, classified, earlier, now, applied, nops>>

\* CGBankApp._render_login_form, the Create New Account button.
OpenCreateAccount ==
    /\ variant = "cra"
    /\ CanRun /\ ~LoggedIn /\ ~session_state.show_create_account
    /\ LET w0 == ScriptRun(World)
       IN Commit(ScriptRun([w0 EXCEPT !.ss.show_create_account = TRUE]))
    /\ Results(TRUE, NoResponse, 0)
    /\ call' = PageCall("open_create_account", None, None, 0, << >>)
    /\ UNCHANGED <<runs, variant, classified, earlier, now, applied, nops>>

\* CGBankApp._render_create_account_form, the Cancel button.
CancelCreateAccount ==
    /\ variant = "cra"
    /\ CanRun /\ ~LoggedIn /\ session_state.show_create_account
    /\ LET w0 == ScriptRun(World)
       IN Commit(ScriptRun([w0 EXCEPT !.ss.show_create_account = FALSE]))
    /\ Results(TRUE, NoResponse, 0)
    /\ call' = PageCall("cancel_create_account", None, None, 0, << >>)
    /\ UNCHANGED <<runs, variant, classified, earlier, now, applied, nops>>

\* What the applicant types.  Full name, email, phone and address are only
\* tested for being filled in: one flag stands for the four.
FormInputs ==
    [filled : BOOLEAN, username : {"ghost", "RAVI"}, password : {"pw1"},
     confirm_password : {"pw1", "pw2"},
     aadhar_number : {<<"1","2","3","4","5","6","7","8","9","0","1","2">>,
                      <<"1","2","3","4","5","6","7","8","9","0","1">>,
                      <<"1","2","3","4","5","6","7","8","9","0","1","F">>},
     pan_number : {<<"a","b","c","d","e","1","2","3","4","f">>,
                   <<"A","B","C","D","E","1","2","3","4","5">>}]

\* str.upper
UpperChar(c) ==
    CASE c = "a" -> "A"
      [] c = "b" -> "B"
      [] c = "c" -> "C"
      [] c = "d" -> "D"
      [] c = "e" -> "E"
      [] c = "f" -> "F"
      [] OTHER -> c

upper(str) == [i \in DOMAIN str |-> UpperChar(str[i])]

DigitChars == {"0","1","2","3","4","5","6","7","8","9"}
UpperCaseChars == {"A","B","C","D","E","F"}

\* str.isdigit
isdigit(str) == str # << >> /\ \A i \in DOMAIN str : str[i] \in DigitChars

\* re.match(r'^[A-Z]{5}[0-9]{4}[A-Z]$', pan_number) on a string of length 10
PanMatches(pan_number) ==
    /\ \A i \in 1..5 : pan_number[i] \in UpperCaseChars
    /\ \A i \in 6..9 : pan_number[i] \in DigitChars
    /\ pan_number[10] \in UpperCaseChars

\* str(uuid.uuid4()): 122 random bits, taken not to repeat an id on file.
RequestIds == 1..(MaxRequests + 1)
Uuid4(data) ==
    RequestIds \ {data.account_requests[i].request_id : i \in DOMAIN data.account_requests}

\* A request that is filed as approved.
approve_new_account(w, account_data, request_id, t, outcome) ==
    _save_data([w EXCEPT !.data.account_requests =
                             Append(@, [account_data EXCEPT !.request_id = request_id,
                                                            !.status = "Approved",
                                                            !.request_date = t])],
               outcome)

\* CGBankDatabase.request_new_account
request_new_account(w, account_data, request_id, t, outcome) ==
    _save_data([w EXCEPT !.data.account_requests =
                             Append(@, [account_data EXCEPT !.request_id = request_id,
                                                            !.status = "Pending",
                                                            !.request_date = t])],
               outcome)

\* Lines 1277-1288: what the form shows for the result r of request_new_account.
Submitted(r) ==
    IF r.ret
    THEN [w |-> [r.w EXCEPT !.ss.show_create_account = FALSE], ret |-> TRUE,
          response |-> Response("request_submitted")]
    ELSE [w |-> r.w, ret |-> FALSE, response |-> Response("request_failed")]

\* CGBankApp._render_create_account_form, the Submit Application button.
_render_create_account_form(w, form, request_id, t, outcome) ==
    LET pan_number == upper(form.pan_number)
        Refused(kind) == [w |-> w, ret |-> FALSE, response |-> Response(kind)]
        account_data == [username |-> form.username,
                         password |-> hash_password(form.password),
                         request_id |-> None, status |-> None, request_date |-> t]
    IN IF ~form.filled
       THEN Refused("fill_in_all_fields")
       ELSE IF form.password # form.confirm_password
       THEN Refused("passwords_do_not_match")
       ELSE IF Len(form.aadhar_number) # 12 \/ ~isdigit(form.aadhar_number)
       THEN Refused("invalid_aadhar")
       ELSE IF Len(pan_number) # 10 \/ ~PanMatches(pan_number)
       THEN Refused("invalid_pan")
       ELSE IF get_user(w.data, form.username) # None
       THEN Refused("username_exists")
       ELSE Submitted(request_new_account(w, account_data, request_id, t, outcome))

\* The state after the form's handler returned r, recorded as call c.
FormResult(r, c) ==
    /\ Commit(r.w)
    /\ Results(r.ret, r.response, 0)
    /\ call' = c

CreateAccountSubmit ==
    /\ variant = "cra"
    /\ CanRun /\ ~LoggedIn /\ session_state.show_create_account
    /\ Len(disk.doc.account_requests) < MaxRequests
    /\ \E form \in FormInputs, outcome \in SaveOutcomes :
       \E request_id \in Uuid4(disk.doc) :
          FormResult(_render_create_account_form(ScriptRun(World), form, request_id, now,
                                                 outcome),
                     [PageCall("create_account", form.username, None, 0, <<outcome>>)
                         EXCEPT !.password = form.password])
    /\ UNCHANGED <<runs, variant, classified, earlier, now, applied, nops>>

\* CGBankApp._render_sidebar, the page buttons.
Navigate ==
    /\ CanRun /\ LoggedIn
    /\ \E page \in Pages :
         /\ page # session_state.page
         /\ LET w0 == ScriptRun(World)
            IN Commit(ScriptRun([w0 EXCEPT !.ss.page = page]))
         /\ call' = PageCall("navigate", session_state.current_user, page, 0, << >>)
    /\ Results(TRUE, NoResponse, 0)
    /\ UNCHANGED <<runs, variant, classified, earlier, now, applied, nops>>

\* The pages of bank.py debit inline: balance, then a transaction at the
\* head of st.session_state.transactions; nothing is saved.
bank_debit(w, username, description, amount, t) ==
    LET u == get_user(w.data, username)
        new_balance == w.data.users[u].balance - amount
        new_transaction ==
            [date |-> t, description |-> description, amount |-> 0 - amount,
             balance |-> new_balance]
        have == IF "transactions" \in DOMAIN w.ss THEN w.ss.transactions ELSE << >>
    IN [w EXCEPT !.data.users[u].balance = new_balance,
                 !.ss = Put(w.ss, "transactions", <<new_transaction>> \o have)]

\* CGBankApp._render_transfer_page, the Transfer button.
\* ret: the transfer was carried out.
_render_transfer_page(w, recipient, amount, rnd, t, outcome, src) ==
    LET username == w.ss.current_user
        u == get_user(w.data, username)
        done == add_transaction(w, username, <<"Transfer to ", recipient>>, 0 - amount,
                                rnd, t, outcome)
    IN IF u = None THEN [w |-> w, ret |-> FALSE, applied |-> FALSE]
       ELSE IF ~(amount > 0 /\ recipient # "") THEN [w |-> w, ret |-> FALSE, applied |-> FALSE]
       ELSE IF amount > w.data.users[u].balance THEN [w |-> w, ret |-> FALSE, applied |-> FALSE]
       ELSE IF src = "bank"
       THEN [w |-> bank_debit(w, username, <<"Transfer to ", recipient>>, amount, t),
             ret |-> TRUE, applied |-> FALSE]
       ELSE IF done.ret THEN [w |-> ScriptRun(done.w), ret |-> TRUE, applied |-> TRUE]
       ELSE [w |-> done.w, ret |-> FALSE, applied |-> FALSE]

TransferSubmit ==
    /\ CanRun /\ LoggedIn /\ session_state.page = "transfer"
    /\ nops < MaxOps
    /\ \E recipient \in RecipientInputs, amount \in TransferAmountInputs,
          outcome \in (IF variant = "cra" THEN SaveOutcomes ELSE {"ok"}) :
       LET w0 == ScriptRun(World)
       IN \E rnd \in Draws(w0, w0.ss.current_user) :
          PageResult(_render_transfer_page(w0, recipient, amount, rnd, now, outcome, variant),
                     PageCall("transfer", session_state.current_user, recipient,
                              amount, <<outcome>>),
                     0 - amount)
    /\ nops' = nops + 1
    /\ UNCHANGED <<runs, variant, classified, earlier, now>>

\* A Pay button that does not look at the balance first.
pay_without_funds_check(w, i, rnd, t, outcomes, src) ==
    LET username == w.ss.current_user
        u == get_user(w.data, username)
        bill == w.data.bills[i]
        done == add_bill_payment(w, username, bill.name, bill.amount, rnd, t, outcomes)
    IN IF u = None THEN [w |-> w, ret |-> FALSE, applied |-> FALSE]
       ELSE IF src = "bank"
       THEN [w |-> bank_debit(w, username, <<"Bill Payment: ", bill.name>>, bill.amount, t),
             ret |-> TRUE, applied |-> FALSE]
       ELSE IF done.ret THEN [w |-> ScriptRun(done.w), ret |-> TRUE, applied |-> TRUE]
       ELSE [w |-> done.w, ret |-> FALSE, applied |-> done.debited]

\* CGBankApp._render_bills_page, the Pay button of pending bill i.
_render_bills_page_pay(w, i, rnd, t, outcomes, src) ==
    LET username == w.ss.current_user
        u == get_user(w.data, username)
        bill == w.data.bills[i]
        done == add_bill_payment(w, username, bill.name, bill.amount, rnd, t, outcomes)
    IN IF u = None THEN [w |-> w, ret |-> FALSE, applied |-> FALSE]
       ELSE IF bill.amount > w.data.users[u].balance
       THEN [w |-> w, ret |-> FALSE, applied |-> FALSE]
       ELSE IF src = "bank"
       THEN [w |-> bank_debit(w, username, <<"Bill Payment: ", bill.name>>, bill.amount, t),
             ret |-> TRUE, applied |-> FALSE]
       ELSE IF done.ret THEN [w |-> ScriptRun(done.w), ret |-> TRUE, applied |-> TRUE]
       ELSE [w |-> done.w, ret |-> FALSE, applied |-> done.debited]

PayBill ==
    /\ CanRun /\ LoggedIn /\ session_state.page = "bills"
    /\ nops < MaxOps
    /\ LET w0 == ScriptRun(World)
       IN \E i \in DOMAIN w0.data.bills, o1 \in (IF variant = "cra" THEN SaveOutcomes ELSE {"ok"}) :
          \E o2 \in (IF o1 = "ok" /\ variant = "cra" THEN SaveOutcomes ELSE {"ok"}),
             rnd \in Draws(w0, w0.ss.current_user) :
             PageResult(_render_bills_page_pay(w0, i, rnd, now, <<o1, o2>>, variant),
                        PageCall("pay_bill", session_state.current_user,
                                 w0.data.bills[i].name, w0.data.bills[i].amount, <<o1, o2>>),
                        0 - w0.data.bills[i].amount)
    /\ nops' = nops + 1
    /\ UNCHANGED <<runs, variant, classified, earlier, now>>

\* CGBankApp._render_bills_page, the Pay New Bill form.  outcomes[1] is the
\* save of add_new_bill, outcomes[2] and outcomes[3] those of add_bill_payment.
_render_bills_page_new(w, biller, bill_amount, rnd, t, outcomes, src) ==
    LET username == w.ss.current_user
        u == get_user(w.data, username)
        new_bill == [name |-> biller, amount |-> bill_amount,
                     due |-> t + 30, status |-> "Upcoming"]
        added == add_new_bill(w, username, new_bill, outcomes[1])
        done == add_bill_payment(added.w, username, biller, bill_amount, rnd, t,
                                 <<outcomes[2], outcomes[3]>>)
    IN IF u = None THEN [w |-> w, ret |-> FALSE, applied |-> FALSE]
       ELSE IF ~(bill_amount > 0) THEN [w |-> w, ret |-> FALSE, applied |-> FALSE]
       ELSE IF bill_amount > w.data.users[u].balance
       THEN [w |-> w, ret |-> FALSE, applied |-> FALSE]
       ELSE IF src = "bank"
       THEN [w |-> bank_debit(w, username, <<"Bill Payment: ", biller>>, bill_amount, t),
             ret |-> TRUE, applied |-> FALSE]
       ELSE IF ~added.ret THEN [w |-> added.w, ret |-> FALSE, applied |-> FALSE]
       ELSE IF done.ret THEN [w |-> ScriptRun(done.w), ret |-> TRUE, applied |-> TRUE]
       ELSE [w |-> done.w, ret |-> FALSE, applied |-> done.debited]

PayNewBill ==
    /\ CanRun /\ LoggedIn /\ session_state.page = "bills"
    /\ nops < MaxOps
    /\ \E biller \in BillerInputs, bill_amount \in BillAmountInputs,
          o1 \in (IF variant = "cra" THEN SaveOutcomes ELSE {"ok"}) :
       \E o2 \in (IF o1 = "ok" /\ variant = "cra" THEN SaveOutcomes ELSE {"ok"}) :
       \E o3 \in (IF o2 = "ok" /\ o1 = "ok" /\ variant = "cra" THEN SaveOutcomes ELSE {"ok"}) :
       LET w0 == ScriptRun(World)
       IN \E rnd \in Draws(w0, w0.ss.current_user) :
          PageResult(_render_bills_page_new(w0, biller, bill_amount, rnd, now,
                                            <<o1, o2, o3>>, variant),
                     PageCall("pay_new_bill", session_state.current_user, biller,
                              bill_amount, <<o1, o2, o3>>),
                     0 - bill_amount)
    /\ nops' = nops + 1
    /\ UNCHANGED <<runs, variant, classified, earlier, now>>

\* CGBankApp._render_bot_page and _handle_popup_action: a message to Rexa
\* from the logged-in user, then st.rerun().
BotMessage ==
    /\ CanRun /\ LoggedIn
    /\ Len(session_state.bot_conversation) < MaxMessages
    /\ \E message \in MessageInputs :
       \E pdf_outcome \in RendererChoices(message), link_outcome \in RendererChoices(message) :
       LET w0 == ScriptRun(World)
           username == w0.ss.current_user
       IN \E rnd \in MessageDraws(w0, message, username) :
          ChatResult(process_message(w0, message, username, rnd, now,
                                     pdf_outcome, link_outcome),
                     [NoCall EXCEPT !.op = "process_message", !.username = username,
                                    !.message = message,
                                    !.stash = w0.ss.download_link])
    /\ UNCHANGED <<runs, variant, now, applied, nops>>

\* RexaBot.process_message called with a username, in whatever state the
\* session is.  No rerun follows a direct call.
ApiProcessMessageAs ==
    /\ CanRun
    /\ \E message \in MessageInputs, username \in UsernameInputs :
       \E pdf_outcome \in RendererChoices(message), link_outcome \in RendererChoices(message),
          rnd \in MessageDraws(World, message, username) :
          DirectResult(process_message(World, message, username, rnd, now,
                                       pdf_outcome, link_outcome),
                       [NoCall EXCEPT !.op = "process_message", !.username = username,
                                      !.message = message,
                                      !.stash = PendingSlot(session_state)])
    /\ UNCHANGED <<runs, variant, now, applied, nops>>

\* CGBankApp._render_popup_bot: the quick-action buttons of the popup.
PopupAction ==
    /\ CanRun /\ LoggedIn
    /\ Len(session_state.bot_conversation) < MaxExchanges
    /\ \E message \in {MsgBalance, MsgTransfer} :
       LET w0 == ScriptRun(World)
           username == w0.ss.current_user
       IN ChatResult(process_message(w0, message, username, << >>, now, "ok", "ok"),
                     [NoCall EXCEPT !.op = "process_message", !.username = username,
                                    !.message = message,
                                    !.stash = w0.ss.download_link])
    /\ UNCHANGED <<runs, variant, now, applied, nops>>

\* RexaBot.process_message called for a visitor: username is None, as the
\* pages pass it when nobody is logged in.  No rerun follows a direct call.
ApiProcessMessage ==
    /\ CanRun /\ ~LoggedIn
    /\ \E message \in MessageInputs :
         DirectResult(process_message(World, message, None, << >>, now, "ok", "ok"),
                      [NoCall EXCEPT !.op = "process_message", !.message = message,
                                     !.stash = PendingSlot(session_state)])
    /\ UNCHANGED <<runs, variant, now, applied, nops>>

\* RexaBot._identify_intent called directly.
Classify ==
    /\ \E message \in ClassifierInputs :
         /\ classified' = Classification(message)
         /\ earlier' = IF earlier.text = << >> THEN Classification(message) ELSE earlier
         /\ call' = [NoCall EXCEPT !.op = "_identify_intent", !.message = message]
    /\ UNCHANGED <<runs, variant, BANK_DATA, disk, session_state, now, ret, response, pdf_calls,
                   applied, nops>>

\* The ledger through the pages: login, navigation, transfers and bills.
NextPages ==
    \/ Login
    \/ Logout
    \/ Navigate
    \/ TransferSubmit
    \/ PayBill
    \/ PayNewBill
    \/ Tick

SpecPages == Init /\ [][NextPages]_vars

\* The dialogue: login, messages to Rexa, and process_message for a visitor.
NextChat ==
    \/ Login
    \/ Logout
    \/ BotMessage
    \/ ApiProcessMessage
    \/ Tick

SpecChat == Init /\ [][NextChat]_vars

\* A session logged in as ravi submits the transfer form: the script run
\* starts by reading dummydata.json (lines 26-35).
RaceAmounts == {200, 900}
RunLoad(r) ==
    /\ disk.valid
    /\ runs[r].pc = "idle"
    /\ \E amount \in RaceAmounts :
         runs' = [runs EXCEPT ![r] =
                    [pc |-> "loaded", data |-> disk.doc,
                     ss |-> [SessionDefaults EXCEPT !.logged_in = TRUE,
                                                    !.current_user = "ravi",
                                                    !.page = "transfer"],
                     amount |-> amount, success |-> FALSE]]
    /\ UNCHANGED <<variant, BANK_DATA, disk, session_state, now, call, ret, response,
                   pdf_calls, classified, earlier, applied, nops>>

\* Line 1718: if amount > user['balance'], the transfer is refused.
RunCheck(r) ==
    /\ runs[r].pc = "loaded"
    /\ runs' = [runs EXCEPT ![r].pc =
                   IF runs[r].amount > runs[r].data.users["ravi"].balance
                   THEN "refused" ELSE "checked"]
    /\ UNCHANGED <<variant, BANK_DATA, disk, session_state, now, call, ret, response,
                   pdf_calls, classified, earlier, applied, nops>>

\* add_transaction up to its last line: the run's BANK_DATA and session hold
\* the transfer, the file does not yet.
RunApply(r) ==
    /\ runs[r].pc = "checked"
    /\ \E rnd \in Draws([data |-> runs[r].data, disk |-> disk, ss |-> runs[r].ss], "ravi") :
         LET done == add_transaction([data |-> runs[r].data, disk |-> disk, ss |-> runs[r].ss],
                                     "ravi", <<"Transfer to ", "X">>, 0 - runs[r].amount,
                                     rnd, now, "open_failed")
         IN runs' = [runs EXCEPT ![r].pc = "applied", ![r].data = done.w.data,
                                 ![r].ss = done.w.ss]
    /\ UNCHANGED <<variant, BANK_DATA, disk, session_state, now, call, ret, response,
                   pdf_calls, classified, earlier, applied, nops>>

\* return CGBankDatabase._save_data(): the whole document of the run is
\* written over the file.
RunSave(r) ==
    /\ runs[r].pc = "applied"
    /\ \E outcome \in SaveOutcomes :
         LET saved == _save_data([data |-> runs[r].data, disk |-> disk, ss |-> runs[r].ss],
                                 outcome)
         IN /\ disk' = saved.w.disk
            /\ runs' = [runs EXCEPT ![r].pc = "done", ![r].success = saved.ret]
    /\ UNCHANGED <<variant, BANK_DATA, session_state, now, call, ret, response,
                   pdf_calls, classified, earlier, applied, nops>>

\* Two sessions, one transfer each, their steps interleaved.
NextRace ==
    \/ \E r \in Runs : RunLoad(r)
    \/ \E r \in Runs : RunCheck(r)
    \/ \E r \in Runs : RunApply(r)
    \/ \E r \in Runs : RunSave(r)

SpecRace == Init /\ [][NextRace]_vars

\* RexaBot.process_message as a method: calls for a visitor and for any username.
NextBot ==
    \/ ApiProcessMessageAs
    \/ ApiProcessMessage

SpecBot == Init /\ [][NextBot]_vars

\* The conversation kept over the logins of a browser session.
NextHistory ==
    \/ Login
    \/ Logout
    \/ PopupAction

SpecHistory == Init /\ [][NextHistory]_vars

\* The login page: logins and account requests.
NextAccounts ==
    \/ Login
    \/ Logout
    \/ OpenCreateAccount
    \/ CancelCreateAccount
    \/ CreateAccountSubmit

SpecAccounts == Init /\ [][NextAccounts]_vars

\* The classifier, called between ledger calls and messages of a visitor.
NextIntent ==
    \/ Classify
    \/ ApiAddNewBill
    \/ ApiProcessMessage

SpecIntent == Init /\ [][NextIntent]_vars

(***************************************************************************)
(* Claims about the ledger store.                                          *)
(***************************************************************************)
Balance(doc, k) == doc.users[k].balance
Transactions(ss) == IF "transactions" \in DOMAIN ss THEN ss.transactions ELSE << >>

\* The step is a call of `op` on an existing account.
CalledOnAccount(op) ==
    /\ call'.op = op
    /\ get_user(BANK_DATA, call'.username) # None

\* C1: after any sequence of add_transaction calls every account's balance is
\* its initial balance plus the amounts of the calls that returned True; a
\* call that returned False contributes nothing.
C1_BalanceIsInitialPlusApplied ==
    \A k \in UserKeys : Balance(BANK_DATA, k) = Balance(InitialDocument, k) + applied[k]

\* C2: add_transaction with balance + amount < 0 returns False and leaves the
\* balance and the transaction sequence as they were.
C2_OverdraftRejected ==
    [][ (/\ CalledOnAccount("add_transaction")
         /\ Balance(BANK_DATA, get_user(BANK_DATA, call'.username)) + call'.amount < 0)
        => (/\ ret' = FALSE
            /\ BANK_DATA'.users = BANK_DATA.users
            /\ Transactions(session_state') = Transactions(session_state)) ]_vars

\* C3: a mutating ledger operation that returns False because _save_data
\* failed leaves balance, transaction sequence and pending bills as they were
\* before the call, and what a successful save writes holds the effects of
\* the successful operations only.
SaveFailed ==
    /\ call'.op \in {"add_transaction", "add_bill_payment", "add_new_bill"}
    /\ call'.op # "add_new_bill" => get_user(BANK_DATA, call'.username) # None
    /\ \E i \in DOMAIN call'.saves : call'.saves[i] # "ok"
    /\ ret' = FALSE

C3_FailedSaveChangesNothing ==
    [][ /\ SaveFailed =>
            /\ BANK_DATA'.users = BANK_DATA.users
            /\ BANK_DATA'.bills = BANK_DATA.bills
            /\ Transactions(session_state') = Transactions(session_state)
        /\ (disk'.valid /\ disk' # disk) =>
            \A k \in UserKeys :
                Balance(disk'.doc, k) = Balance(InitialDocument, k) + applied'[k] ]_vars

\* C4: add_bill_payment of a bill whose amount exceeds the balance returns
\* False and changes neither bills, balance nor transactions; in every call
\* the debit and the removal of the bill happen together or not at all.
C4_UnfundedBillRejected ==
    [][ CalledOnAccount("add_bill_payment") =>
         /\ (call'.amount > Balance(BANK_DATA, get_user(BANK_DATA, call'.username))) =>
                /\ ret' = FALSE
                /\ BANK_DATA'.bills = BANK_DATA.bills
                /\ BANK_DATA'.users = BANK_DATA.users
                /\ Transactions(session_state') = Transactions(session_state)
         /\ (BANK_DATA'.users # BANK_DATA.users) <=> (BANK_DATA'.bills # BANK_DATA.bills) ]_vars

\* bills with the entry at index i removed
WithoutIndex(bills, i) == SubSeq(bills, 1, i - 1) \o SubSeq(bills, i + 1, Len(bills))

\* C5: a successful add_bill_payment of a pending bill removes exactly one
\* entry, a bill of that name, from the pending list and debits the amount
\* once.
C5_PaysExactlyOneBill ==
    [][ (/\ CalledOnAccount("add_bill_payment")
         /\ \E i \in DOMAIN BANK_DATA.bills : BANK_DATA.bills[i].name = call'.name
         /\ ret' = TRUE)
        => (/\ \E i \in DOMAIN BANK_DATA.bills :
                  /\ BANK_DATA.bills[i].name = call'.name
                  /\ BANK_DATA'.bills = WithoutIndex(BANK_DATA.bills, i)
            /\ LET u == get_user(BANK_DATA, call'.username)
               IN Balance(BANK_DATA', u) = Balance(BANK_DATA, u) - call'.amount) ]_vars

(***************************************************************************)
(* Claims about the transaction sequence.                                  *)
(***************************************************************************)
NewestFirst(txns) == \A i, j \in DOMAIN txns : i < j => txns[i].date >= txns[j].date

\* C6: in every reachable state the sequence get_user_transactions returns,
\* the cached one or a freshly synthesized one, for any account and any
\* random draws, has non-increasing dates from head to tail.
C6_NewestFirst ==
    \A username \in UsernameInputs :
        \A rnd \in Draws(World, username) :
            NewestFirst(get_user_transactions(World, username, rnd, now).ret)

\* Two ledger operations on different days on top of a synthesized history.
C6_Witness ==
    /\ call.op \in {"transfer", "pay_bill", "pay_new_bill"}
    /\ ret = TRUE
    /\ Len(Transactions(session_state)) >= 4
    /\ Transactions(session_state)[1].date > Transactions(session_state)[2].date
    /\ Transactions(session_state)[3].date > Transactions(session_state)[4].date

\* C7: whenever the logged-in account has a non-empty transaction sequence,
\* the balance snapshot of its head transaction is the account's balance.
C7_HeadSnapshotIsBalance ==
    (/\ session_state.logged_in
     /\ Transactions(session_state) # << >>)
    => Transactions(session_state)[1].balance
         = Balance(BANK_DATA, get_user(BANK_DATA, session_state.current_user))

(***************************************************************************)
(* Claims about the report dialogue.  The dialogue awaits a confirmation   *)
(* when the session holds a download link of a report; else it is idle.    *)
(***************************************************************************)
AwaitingReportConfirmation(ss) ==
    "download_link" \in DOMAIN ss /\ ss.download_link # NoLink

Idle(ss) == ~AwaitingReportConfirmation(ss)

\* The step is process_message on one of `messages`.
Received(messages) ==
    /\ call'.op = "process_message"
    /\ call'.message \in messages

\* C8: awaiting a confirmation, each of 'yes', 'y', 'download' and
\* 'download report' is answered with the stashed download link, and the
\* dialogue is idle afterwards.
C8_AffirmativeYieldsDownload ==
    [][ (AwaitingReportConfirmation(session_state)
         /\ Received({MsgYes, MsgY, MsgDownload, MsgDownloadReport}))
        => (/\ response'.kind = "download_link"
            /\ response'.link = session_state.download_link
            /\ Idle(session_state')) ]_vars

\* C9: awaiting a confirmation, each of 'no', 'n' and 'cancel' is answered
\* with the cancellation acknowledgment, the stash is gone and the dialogue
\* idle afterwards, and the PDF generator was not called.
C9_NegativeCancels ==
    [][ (AwaitingReportConfirmation(session_state)
         /\ Received({MsgNo, MsgN, MsgCancel}))
        => (/\ response'.kind = "download_cancelled"
            /\ Idle(session_state')
            /\ pdf_calls' = 0) ]_vars

\* 'cancel' arrived while a report was stashed, and was acknowledged.
C9_Witness ==
    /\ call.op = "process_message"
    /\ call.message = MsgCancel
    /\ call.stash.kind = "href"
    /\ response.kind = "download_cancelled"
    /\ session_state.download_link = NoLink
    /\ pdf_calls = 0

\* C10: while the dialogue is idle, as _initialize_session_state leaves it,
\* an affirmative or negative token is answered neither with a download
\* link nor with the cancellation acknowledgment.
C10_IdleIgnoresTokens ==
    [][ (Idle(session_state)
         /\ Received({MsgYes, MsgY, MsgDownload, MsgDownloadReport, MsgNo, MsgN, MsgCancel}))
        => response'.kind \notin {"download_link", "download_cancelled"} ]_vars

(***************************************************************************)
(* Claims about the dispatch of process_message.                           *)
(***************************************************************************)
\* The cached transactions dated inside the trailing report window at time t.
InWindow(ss, t) ==
    SelectSeq(Transactions(ss), LAMBDA txn : txn.date >= t - ReportWindowDays)

\* The step is process_message on a message of intent `i`.
ReceivedIntent(i) ==
    /\ call'.op = "process_message"
    /\ IntentTable[lower(call'.message)] = i

\* C11: a monthly_report message from an authenticated user with a
\* transaction in the trailing window stashes a new report and returns the
\* summary, and the dialogue awaits the confirmation; from a visitor, or
\* with an empty window, the fixed message is returned and the pending slot
\* is what it was.
C11_ReportStashedOnlyWhenDue ==
    [][ ReceivedIntent("monthly_report") =>
          IF call'.username # None /\ InWindow(session_state, now) # << >>
          THEN /\ response'.kind = "report_summary"
               /\ AwaitingReportConfirmation(session_state')
          ELSE /\ response'.kind \in {"login_to_view_report", "no_transactions_last_month"}
               /\ PendingSlot(session_state') = PendingSlot(session_state) ]_vars

\* The messages of the model with a greeting word, and those with a thanks
\* word and no greeting word.
GreetingMessages ==
    {m \in MessageInputs : \E word \in GreetingWords : Contains(lower(m), word)}

ThanksMessages ==
    {m \in MessageInputs : \E word \in ThanksWords : Contains(lower(m), word)}
        \ GreetingMessages

\* C12: a message with a greeting word is answered with the greeting, one
\* with a thanks word (and no greeting word) with the thanks response,
\* whatever else it says; neither touches the pending slot, the cached
\* transactions or the PDF generator, so a 'yes' after a greeting still
\* yields the stashed download link.
C12_GreetingAndThanksFirst ==
    [][ /\ Received(GreetingMessages)
            => (/\ response'.kind \in {"greeting", "greeting_by_name"}
                /\ response'.kind = "greeting_by_name" <=> call'.username # None
                /\ PendingSlot(session_state') = PendingSlot(session_state)
                /\ Transactions(session_state') = Transactions(session_state)
                /\ pdf_calls' = 0)
        /\ Received(ThanksMessages)
            => (/\ response'.kind = "thanks"
                /\ PendingSlot(session_state') = PendingSlot(session_state)
                /\ Transactions(session_state') = Transactions(session_state)
                /\ pdf_calls' = 0)
        /\ (/\ call.op = "process_message"
             /\ response.kind \in {"greeting", "greeting_by_name"}
             /\ AwaitingReportConfirmation(session_state)
             /\ Received({MsgYes}))
            => (/\ response'.kind = "download_link"
                /\ response'.link = session_state.download_link) ]_vars

\* 'yes' right after a greeting that arrived while a report was stashed.
C12_Witness ==
    /\ call.op = "process_message"
    /\ call.message = MsgTransactionHistory
    /\ call.stash.kind = "href"
    /\ response.kind = "greeting_by_name"
    /\ AwaitingReportConfirmation(session_state)

\* The fixed answer to a visitor, per intent that needs a login.
LoginMessage ==
    [i \in {"balance_inquiry", "transaction_history", "fund_transfer", "bill_payment",
            "monthly_report"} |->
        CASE i = "balance_inquiry" -> "login_to_check_balance"
          [] i = "transaction_history" -> "login_to_view_history"
          [] i = "fund_transfer" -> "login_to_transfer"
          [] i = "bill_payment" -> "login_to_pay_bills"
          [] OTHER -> "login_to_view_report"]

\* C13: for a visitor, a message whose intent needs a login is answered with
\* the fixed 'please log in' message of that intent, and the session state
\* is left as it was.
C13_VisitorToldToLogIn ==
    [][ (/\ call'.op = "process_message"
         /\ call'.username = None
         /\ IntentTable[lower(call'.message)] \in DOMAIN LoginMessage)
        => (/\ response'.kind = LoginMessage[IntentTable[lower(call'.message)]]
            /\ session_state' = session_state) ]_vars

\* The categories, by position in service_keywords, that have a keyword phrase
\* occurring as a whole word in the lowercased text.
HitTable ==
    [m \in DOMAIN IntentTable |->
        {c \in DOMAIN service_keywords :
            \E keyword \in Range(service_keywords[c].keywords) : re_search(keyword, lower(m))}]

\* The closest keyword alone: what the fuzzy fallback would answer.
FuzzyTable ==
    [m \in DOMAIN IntentTable |-> FuzzyIntent(get_close_matches(lower(m), all_keywords))]

\* C14: _identify_intent returns the earliest declared category that has a
\* keyword occurring in the lowercased message as a whole word, whatever the
\* fuzzy fallback would say ('I want to transfer money' gives fund_transfer),
\* and the answer of the fuzzy fallback only when no category has such a hit.
C14_FirstCategoryWins ==
    classified.text # << >> =>
        /\ \A c \in HitTable[classified.text] :
              (\A d \in HitTable[classified.text] : c <= d)
                  => classified.intent = service_keywords[c].intent
        /\ HitTable[classified.text] = {}
              => classified.intent = FuzzyTable[classified.text]
        /\ classified.text = MsgTransfer => classified.intent = "fund_transfer"

\* 'monthly statement' has hits in two categories and a closest keyword in the
\* later one; the earlier category is the answer.
C14_Witness ==
    /\ call.op = "_identify_intent"
    /\ classified.text = MsgMonthlyStatement
    /\ Cardinality(HitTable[MsgMonthlyStatement]) > 1
    /\ FuzzyTable[MsgMonthlyStatement] # classified.intent
    /\ classified.intent = "transaction_history"

C16_VerifyUserComparesHashes ==
    [][ call'.op = "login"
        => ret' = (/\ get_user(BANK_DATA, call'.username) # None
                   /\ hash_password(call'.password)
                        = BANK_DATA.users[get_user(BANK_DATA, call'.username)].password) ]_vars

RequestIdsOf(data) ==
    {data.account_requests[i].request_id : i \in DOMAIN data.account_requests}

RefusedByValidation ==
    {"fill_in_all_fields", "passwords_do_not_match", "invalid_aadhar", "invalid_pan",
     "username_exists"}

\* C17: an account request only appends one entry, with status 'Pending' and
\* a request id no entry on file has, to the queue of requests.  Whatever the
\* requests made, the accounts are those there were, get_user of a requested
\* username is None, and every request on file is Pending; a submission that
\* validation refuses leaves the queue, and the file, as they were.
C17_RequestsOnlyQueue ==
    /\ [](/\ BANK_DATA.users = InitialUsers
          /\ \A i \in DOMAIN BANK_DATA.account_requests :
                /\ BANK_DATA.account_requests[i].status = "Pending"
                /\ get_user(BANK_DATA, BANK_DATA.account_requests[i].username) = None
          /\ \A i \in DOMAIN disk.doc.account_requests :
                disk.doc.account_requests[i].status = "Pending")
    /\ [][ call'.op = "create_account"
           => /\ response'.kind \in RefusedByValidation
                   => /\ BANK_DATA'.account_requests = disk.doc.account_requests
                      /\ disk' = disk
              /\ response'.kind \notin RefusedByValidation
                   => /\ Len(BANK_DATA'.account_requests) = Len(disk.doc.account_requests) + 1
                      /\ \A i \in DOMAIN disk.doc.account_requests :
                            BANK_DATA'.account_requests[i] = disk.doc.account_requests[i]
                      /\ LET new == BANK_DATA'.account_requests[Len(BANK_DATA'.account_requests)]
                         IN /\ new.status = "Pending"
                            /\ new.request_id \notin RequestIdsOf(disk.doc)
                            /\ new.username = call'.username
                            /\ get_user(BANK_DATA', call'.username) = None ]_vars

\* Two requests for the same username are on file, each refused submission
\* having queued nothing, and the username is still no account.
C17_Witness ==
    /\ call.op = "create_account"
    /\ response.kind = "request_submitted"
    /\ Len(BANK_DATA.account_requests) = 2
    /\ disk.doc.account_requests = BANK_DATA.account_requests
    /\ BANK_DATA.account_requests[1].request_id # BANK_DATA.account_requests[2].request_id
    /\ get_user(BANK_DATA, call.username) = None

\* The sum of the positive amounts, of the absolute values of the negative
\* amounts, and of the signed amounts of a list of transactions.
RECURSIVE Credits(_)
Credits(txns) ==
    IF txns = << >> THEN 0
    ELSE (IF Head(txns).amount > 0 THEN Head(txns).amount ELSE 0) + Credits(Tail(txns))

RECURSIVE Debits(_)
Debits(txns) ==
    IF txns = << >> THEN 0
    ELSE (IF Head(txns).amount < 0 THEN 0 - Head(txns).amount ELSE 0) + Debits(Tail(txns))

RECURSIVE SignedTotal(_)
SignedTotal(txns) ==
    IF txns = << >> THEN 0 ELSE Head(txns).amount + SignedTotal(Tail(txns))

\* C18: the report behind a summary counts the transactions inside the
\* window, totals their positive amounts as credit and the absolute values of
\* their negative amounts as debit, and gives credit - debit, the sum of the
\* signed amounts, as the net change; the transactions it lists are those of
\* the window, so none outside it contributes.
C18_ReportTotals ==
    [][ (call'.op = "process_message" /\ response'.kind = "report_summary") =>
          /\ response'.report.transactions = InWindow(session_state', now)
          /\ response'.report.total_transactions = Len(InWindow(session_state', now))
          /\ response'.report.total_credit = Credits(InWindow(session_state', now))
          /\ response'.report.total_debit = Debits(InWindow(session_state', now))
          /\ response'.report.net_change
                = response'.report.total_credit - response'.report.total_debit
          /\ response'.report.net_change = SignedTotal(InWindow(session_state', now)) ]_vars

\* A summary over a window with a debit in it, while a cached credit is
\* outside it.
C18_Witness ==
    /\ call.op = "process_message"
    /\ response.kind = "report_summary"
    /\ response.report.total_debit > 0
    /\ response.report.total_credit = 0
    /\ response.report.total_transactions < Len(Transactions(session_state))
    /\ Credits(Transactions(session_state)) > 0

\* C19: the conversation kept in the session is bounded: whatever the
\* number of messages processed, st.session_state.bot_conversation holds at
\* most the N most recent exchanges, N being the number the page shows.
C19_HistoryBounded == Len(session_state.bot_conversation) <= HistoryShown

\* What the operation returns for a username that is no account.
NoAccountResult(op) ==
    IF op = "add_transaction"
    THEN add_transaction(World, "ghost", <<"Transfer to ", "X">>, 100, << >>, now, "ok").ret
    ELSE add_bill_payment(World, "ghost", "Electricity Company", 75, << >>, now,
                          <<"ok", "ok">>).ret

\* C20: the result of add_transaction and of add_bill_payment when _save_data
\* fails differs from their result when the account does not exist.
C20_SaveFailureIsDistinct ==
    [][ (/\ call'.op \in {"add_transaction", "add_bill_payment"}
         /\ get_user(BANK_DATA, call'.username) # None
         /\ \E i \in DOMAIN call'.saves : call'.saves[i] # "ok")
        => ret' # NoAccountResult(call'.op) ]_vars

(***************************************************************************)
(* Claims about the report flow, the frame of process_message and the      *)
(* pages.                                                                  *)
(***************************************************************************)
\* The step is a monthly_report request during which the PDF generator or
\* the encoding of the download link raised.
GenerationFailed ==
    /\ ReceivedIntent("monthly_report")
    /\ \/ response'.kind = "pdf_failed"
       \/ /\ response'.kind = "report_summary"
          /\ PendingSlot(session_state').kind = "error"

\* C21: when the generation of the report document fails during a
\* monthly_report request, the answer is the generic failure message and the
\* dialogue is idle afterwards: no link, stale or placeholder, is left for a
\* following 'yes' to return.
C21_FailedGenerationLeavesIdle ==
    [][ GenerationFailed
        => (/\ response'.kind = "pdf_failed"
            /\ Idle(session_state')) ]_vars

\* C22: the PDF generator is called only while an affirmative token is
\* handled in a dialogue that awaits the confirmation of a report, never
\* while the report request itself is handled.
C22_RendererOnlyOnConfirmation ==
    [][ pdf_calls' # pdf_calls
        => (/\ Received(AffirmativeTokens)
            /\ AwaitingReportConfirmation(session_state)) ]_vars

\* The pending-report slot of a session: the key, if present, and its value.
Slot(ss) == [k \in (DOMAIN ss) \cap {"download_link"} |-> ss[k]]

\* The responses of the monthly_report branch and of the two confirmation
\* branches.
ReportFlowResponses ==
    {"login_to_view_report", "no_transactions_last_month", "report_summary", "pdf_failed",
     "download_link", "download_cancelled"}

\* C23: process_message changes no balance and not the pending bills; it
\* changes the pending-report slot only in the monthly_report branch and in
\* the two confirmation branches, and in every other branch it changes
\* nothing at all.
C23_ChatIsAQuery ==
    [][ call'.op = "process_message"
        => (/\ BANK_DATA'.users = BANK_DATA.users
            /\ BANK_DATA'.bills = BANK_DATA.bills
            /\ response'.kind \notin ReportFlowResponses
                 => (/\ Slot(session_state') = Slot(session_state)
                     /\ session_state' = session_state
                     /\ BANK_DATA' = BANK_DATA
                     /\ disk' = disk)) ]_vars

IsSuffix(before, after) ==
    /\ Len(before) <= Len(after)
    /\ SubSeq(after, Len(after) - Len(before) + 1, Len(after)) = before

\* C24: whatever a page does, the transactions there were are a suffix of
\* those there are afterwards, entry for entry; a transfer or bill payment
\* that succeeds adds exactly one entry, the debit dated now, at the head.
C24_LogGrowsAtHead ==
    [][ /\ IsSuffix(Transactions(session_state), Transactions(session_state'))
        /\ (call'.op \in {"transfer", "pay_bill", "pay_new_bill"} /\ ret')
             => (/\ Len(Transactions(session_state')) = Len(Transactions(session_state)) + 1
                 /\ Head(Transactions(session_state')).amount = 0 - call'.amount
                 /\ Head(Transactions(session_state')).date = now) ]_vars

\* A second payment went through: the log is the new entry, the entry of
\* the first payment and the history synthesized at login.
C24_Witness ==
    /\ call.op \in {"transfer", "pay_bill", "pay_new_bill"}
    /\ ret
    /\ Len(Transactions(session_state)) = Len(InitialHistory) + 2

\* C25: when the transfers of two sessions against one account interleave,
\* no update is lost: once both have reported success the file holds the
\* initial balance less both amounts; and no balance, in a run or in the
\* file, is ever negative.
C25_TransfersAreSerialized ==
    /\ (\A r \in Runs : runs[r].pc = "done" /\ runs[r].success)
         => Balance(disk.doc, "ravi")
              = Balance(InitialDocument, "ravi") - runs[1].amount - runs[2].amount
    /\ \A r \in Runs : Balance(runs[r].data, "ravi") >= 0
    /\ disk.valid => Balance(disk.doc, "ravi") >= 0

\* C26: histories are isolated per account: when a session logs out of one
\* account and logs in to another, the history the new account gets holds
\* none of the entries the session held for the account that logged out.
C26_HistoriesAreIsolated ==
    [][ (/\ call.op = "logout"
         /\ call'.op = "login" /\ ret'
         /\ Lower(call'.username) # call.username)
          => \A i \in 1..Len(Transactions(session_state')) :
               \A j \in 1..Len(Transactions(session_state)) :
                 Transactions(session_state')[i] # Transactions(session_state)[j] ]_vars

\* C27: through the transfer form, the pay button of a bill and the
\* pay-new-bill form no balance becomes negative, in memory or in the file;
\* a submission whose amount exceeds the balance the page read is refused and
\* leaves balances, bills, the file and the transaction log as they were.
PageFlows == {"transfer", "pay_bill", "pay_new_bill"}
NoOverdraft(doc) == \A k \in UserKeys : Balance(doc, k) >= 0
ExceedsBalance(c, data) ==
    /\ c.op \in PageFlows
    /\ get_user(data, c.username) # None
    /\ c.amount > Balance(data, get_user(data, c.username))
C27_NoOverdraft ==
    /\ [](NoOverdraft(BANK_DATA) /\ (disk.valid => NoOverdraft(disk.doc)))
    /\ [][ (nops' = nops + 1 /\ ExceedsBalance(call', ScriptRun(World).data))
            => (/\ ~ret'
                /\ BANK_DATA'.users = ScriptRun(World).data.users
                /\ BANK_DATA'.bills = ScriptRun(World).data.bills
                /\ disk' = disk
                /\ Transactions(session_state') = Transactions(session_state)) ]_vars
C27_Witness ==
    /\ ExceedsBalance(call, BANK_DATA) /\ ~ret
    /\ \E k \in UserKeys : Balance(BANK_DATA, k) < Balance(InitialDocument, k)

\* C28: the login state is consistent: logged_in holds exactly when
\* current_user is set, current_user is then the lowercased key of an account,
\* and a logged-out session is on the login page; only a login whose
\* credentials verify_user accepted sets logged_in, and it sets current_user
\* to the lowercased username; only logout clears it, resetting current_user
\* and page in the same step.
LoginStateConsistent(ss) ==
    /\ ss.logged_in <=> ss.current_user # None
    /\ ss.logged_in => \E k \in UserKeys : Lower(k) = ss.current_user
    /\ ~ss.logged_in => ss.page = "login"
C28_LoginStateConsistent ==
    /\ []LoginStateConsistent(session_state)
    /\ [][ /\ (session_state'.logged_in
                /\ session_state'.current_user # session_state.current_user)
               => (/\ call'.op = "login" /\ ret'
                   /\ ~session_state.logged_in
                   /\ verify_user(ScriptRun(World).data, call'.username, call'.password)
                   /\ session_state'.current_user = Lower(call'.username)
                   /\ session_state'.page = "dashboard")
           /\ (session_state.logged_in /\ ~session_state'.logged_in)
               => (/\ call'.op = "logout"
                   /\ session_state'.current_user = None
                   /\ session_state'.page = "login") ]_vars
C28_Witness ==
    /\ session_state.logged_in
    /\ session_state.current_user = "meena"
    /\ session_state.page = "transfer"
    /\ call.op = "navigate"

\* C29: the greeting and thanks rules fire only on a message that holds one
\* of their keywords as a word of its own; 'transaction history' from a user
\* who is logged in holds 'hi' only inside 'history' and is answered with the
\* transaction list.
WordBreaks == {" ", "?", "!", ",", ".", "'"}
ContainsAsWord(message, word) ==
    \E i \in 1..(Len(message) - Len(word) + 1) :
        /\ SubSeq(message, i, i + Len(word) - 1) = word
        /\ i = 1 \/ message[i - 1] \in WordBreaks
        /\ i + Len(word) - 1 = Len(message) \/ message[i + Len(word)] \in WordBreaks
C29_GreetingNeedsAWord ==
    [][ call'.op = "process_message"
        => (/\ response'.kind \in {"greeting", "greeting_by_name"}
                => \E word \in GreetingWords : ContainsAsWord(lower(call'.message), word)
            /\ response'.kind = "thanks"
                => \E word \in ThanksWords : ContainsAsWord(lower(call'.message), word)
            /\ (call'.message = MsgTransactionHistory
                  /\ get_user(BANK_DATA, call'.username) # None)
                => response'.kind \in {"recent_transactions", "no_transactions_yet"}) ]_vars

\* C30: every configured trigger phrase reaches its own category: a text
\* that is one of the keywords listed under a category of service_keywords is
\* classified as that category ('monthly statement' as monthly_report).
C30_PhraseReachesItsCategory ==
    \A c \in DOMAIN service_keywords :
        (\E j \in DOMAIN service_keywords[c].keywords :
            service_keywords[c].keywords[j] = classified.text)
          => classified.intent = service_keywords[c].intent
====
